---- MODULE Spec2Model ----
(***************************************************************************)
(* The Expenses store of src/server/expenses/index.js: the connection      *)
(* lifecycle (connect, disconnect, isConnected, the driver's 'open' and    *)
(* 'error' listeners) and the insert / range query / remove / edit         *)
(* operations over the Expense and Income collections.                     *)
(*                                                                         *)
(* The document database and its driver (mongoose) are the environment:    *)
(* the driver's connection handles, its replies and the two collections    *)
(* are part of the state, and the driver's own steps are actions.          *)
(***************************************************************************)
EXTENDS Integers, Sequences, FiniteSets, TLC

(* ------------------------------------------------------------------ *)
(* Bounds of the model.                                                *)
(* ------------------------------------------------------------------ *)

\* Connection handles createConnection may hand out in one run.
MaxConns == 3
\* Identifiers the store may assign in one run (both kinds together).
MaxIds == 2
\* Largest timestamp of a record; the bounds of a range query run over
\* 1..MaxTs+1.
MaxTs == 2

(* ------------------------------------------------------------------ *)
(* JavaScript values: undefined, null, strings and numbers, tagged.    *)
(* ------------------------------------------------------------------ *)

Undefined == [t |-> "undefined"]
Null == [t |-> "null"]
Str(s) == [t |-> "string", v |-> s]
Num(n) == [t |-> "number", v |-> n]

IsNumber(x) == x.t = "number"

\* obj.k: the value of a key, undefined when the object has no such key.
Prop(obj, k) == IF k \in DOMAIN obj THEN obj[k] ELSE Undefined

\* lodash/defaultTo: the default for undefined and null (and NaN, which no
\* value of the model is).
defaultTo(value, default) ==
  IF value.t \in {"undefined", "null"} THEN default ELSE value

\* `${x}` in a template literal.
Interpolate(x) ==
  CASE x.t = "string" -> x.v
    [] x.t = "number" -> ToString(x.v)
    [] x.t = "null" -> "null"
    [] OTHER -> "undefined"

(* ------------------------------------------------------------------ *)
(* The driver's connection states (mongoose's readyState).             *)
(* ------------------------------------------------------------------ *)

DISCONNECTED == 0
CONNECTED == 1
CONNECTING == 2
DISCONNECTING == 3

DefaultPort == 27017

VARIABLES
  given,        \* the credentials object the constructor was called with
  credentials,  \* this._credentials, as the constructor filled it
  options,      \* this._options
  conns,        \* every handle createConnection has returned, by number
  db,           \* this._db: the number of the current handle, 0 = undefined
  Expense,      \* the module-level binding `Expense`
  Income,       \* the module-level binding `Income`
  expenses,     \* the database's Expense collection: its documents
  incomes,      \* the database's Income collection: its documents
  pending,      \* saves requested by putExpense/putIncome, not yet settled
  nextId,       \* identifiers handed out so far
  emitted,      \* the events the store emitted during the last step
  lastOp        \* the last step: the call or the driver's event, and what
                \* became of it

vars == <<given, credentials, options, conns, db, Expense, Income, expenses, incomes,
          pending, nextId, emitted, lastOp>>

lifeVars == <<conns, db, Expense, Income>>
dataVars == <<expenses, incomes, pending, nextId>>

(* ------------------------------------------------------------------ *)
(* The constructor.                                                    *)
(* ------------------------------------------------------------------ *)

\* this._credentials, from the caller's credentials object.
Credentials(c) ==
  [host |-> Prop(c, "host"),
   database |-> Prop(c, "database"),
   username |-> defaultTo(Prop(c, "username"), Null),
   password |-> defaultTo(Prop(c, "password"), Null),
   authSource |-> defaultTo(Prop(c, "authSource"), Null),
   port |-> defaultTo(Prop(c, "port"), Num(DefaultPort))]

\* this._options, from the caller's options object; TRUE/FALSE are booleans,
\* an absent key is undefined.
Options(o) ==
  [connectOnInit |-> IF "connectOnInit" \in DOMAIN o THEN o.connectOnInit ELSE TRUE]

(* ------------------------------------------------------------------ *)
(* connect(): the URI.                                                 *)
(* ------------------------------------------------------------------ *)

\* The authenticated form, as the list of the template's pieces.
AuthUri(c) ==
  <<"mongodb://", Interpolate(c.username), ":", Interpolate(c.password), "@",
    Interpolate(c.host), ":", Interpolate(c.port), "/", Interpolate(c.database),
    "?authSource=", Interpolate(c.authSource)>>

\* The unauthenticated form.
PlainUri(c) ==
  <<"mongodb://", Interpolate(c.host), ":", Interpolate(c.port), "/",
    Interpolate(c.database)>>

\* A slip the URI claim must notice: any one credential selects the
\* authenticated form.
BuildUriAnyCredential(c) ==
  LET hasUsername == c.username # Null
      hasPassword == c.password # Null
      hasAuthSource == c.authSource # Null
  IN IF hasUsername \/ hasPassword \/ hasAuthSource THEN AuthUri(c) ELSE PlainUri(c)

\* The uri connect() passes to createConnection.
BuildUri(c) ==
  LET hasUsername == c.username # Null
      hasPassword == c.password # Null
      hasAuthSource == c.authSource # Null
  IN IF hasUsername /\ hasPassword /\ hasAuthSource THEN AuthUri(c) ELSE PlainUri(c)

(* ------------------------------------------------------------------ *)
(* The module-level bindings Expense and Income.                       *)
(* ------------------------------------------------------------------ *)

\* What require('./models/expense.js') yields: the model factory.
Factory == [kind |-> "factory", conn |-> 0]
\* A model bound to handle h: what the factory returns for (mongoose, h).
Model(h) == [kind |-> "model", conn |-> h]
\* A document: what a model returns when it is called as a plain function.
Document == [kind |-> "document", conn |-> 0]

\* The value of `B(mongoose, h)` for the current value B of a binding; a
\* document is not callable (see CallThrows).
Call(B, h) == IF B.kind = "factory" THEN Model(h) ELSE Document
CallThrows(B) == B.kind = "document"

(* ------------------------------------------------------------------ *)
(* isConnected, connect(), disconnect().                               *)
(* ------------------------------------------------------------------ *)

\* A slip the disconnect claim must notice: the handle's state is not read.
IsConnectedAnyState(cs, d) == d # 0

\* get isConnected, for handles cs and this._db = d.
IsConnected(cs, d) == d # 0 /\ cs[d].readyState = CONNECTED

isConnected == IsConnected(conns, db)

\* mongoose.createConnection(uri): a new handle, connecting, no listeners.
createConnection(uri) ==
  [readyState |-> CONNECTING, uri |-> uri, onOpen |-> 0, onError |-> 0,
   errored |-> FALSE]

\* The state connect() leaves behind, from handles cs, this._db = d and the
\* bindings E and I. `threw` is set when the call ends in a TypeError, which
\* happens after this._db is assigned and before the listeners are attached.
ConnectEffect(c, cs, d, E, I) ==
  IF IsConnected(cs, d)
    THEN [conns |-> cs, db |-> d, Expense |-> E, Income |-> I,
          setup |-> FALSE, threw |-> FALSE]
    ELSE LET h == Len(cs) + 1
             made == Append(cs, createConnection(BuildUri(c)))
         IN IF CallThrows(E)
              THEN [conns |-> made, db |-> h, Expense |-> E, Income |-> I,
                    setup |-> TRUE, threw |-> TRUE]
              ELSE [conns |-> [made EXCEPT ![h].onOpen = @ + 1, ![h].onError = @ + 1],
                    db |-> h, Expense |-> Call(E, h), Income |-> Call(I, h),
                    setup |-> TRUE, threw |-> FALSE]

\* Credentials with everything given.
AllCredentials ==
  [host |-> Str("localhost"), database |-> Str("eun"), username |-> Str("omar"),
   password |-> Str("secret"), authSource |-> Str("admin"), port |-> Num(5000)]

\* The caller's credentials objects the model starts from: host and database
\* with any of the optional keys, and one whose username is null.
CredentialInputs ==
  { [k \in ks \cup {"host", "database"} |-> AllCredentials[k]]
    : ks \in SUBSET {"username", "password", "authSource", "port"} }
    \cup { [AllCredentials EXCEPT !.username = Null] }

\* The caller's options objects.
OptionInputs == { <<>>, [connectOnInit |-> FALSE], [connectOnInit |-> TRUE] }

\* The state after `new Expenses(c, o)`.
Constructed(c, o) ==
  LET r == ConnectEffect(Credentials(c), <<>>, 0, Factory, Factory)
      on == Options(o).connectOnInit
  IN /\ given = c
     /\ credentials = Credentials(c)
     /\ options = Options(o)
     /\ conns = IF on THEN r.conns ELSE <<>>
     /\ db = IF on THEN r.db ELSE 0
     /\ Expense = IF on THEN r.Expense ELSE Factory
     /\ Income = IF on THEN r.Income ELSE Factory
     /\ expenses = {}
     /\ incomes = {}
     /\ pending = {}
     /\ nextId = 0
     /\ emitted = <<>>
     /\ lastOp = [op |-> "new", connectOnInit |-> on]

\* connect()
Connect ==
  LET r == ConnectEffect(credentials, conns, db, Expense, Income)
  IN /\ (isConnected \/ Len(conns) < MaxConns)
     /\ conns' = r.conns
     /\ db' = r.db
     /\ Expense' = r.Expense
     /\ Income' = r.Income
     /\ emitted' = <<>>
     /\ lastOp' = [op |-> "connect", wasConnected |-> isConnected, setup |-> r.setup,
                   retry |-> (db # 0 /\ conns[db].errored), threw |-> r.threw]
     /\ UNCHANGED <<given, credentials, options, dataVars>>

\* this._db.close(): the driver marks the handle disconnecting at once and
\* acknowledges the close later (DriverClose).
close(cs, d) == [cs EXCEPT ![d].readyState = DISCONNECTING]

\* disconnect()
Disconnect ==
  /\ IF ~isConnected
       THEN /\ emitted' = <<>>
            /\ UNCHANGED conns
       ELSE /\ conns' = close(conns, db)
            /\ emitted' = <<[name |-> "disconnect", payload |-> Undefined]>>
  /\ lastOp' = [op |-> "disconnect", wasConnected |-> isConnected]
  /\ UNCHANGED <<given, credentials, options, db, Expense, Income, dataVars>>

(* ------------------------------------------------------------------ *)
(* The driver's events on a handle, and the store's listeners.         *)
(* ------------------------------------------------------------------ *)

\* _onConnect
OnConnect == [name |-> "connect", payload |-> Undefined]

\* An Error object with a message.
Error(m) == [t |-> "error", v |-> m]

\* _onError(error): a value that is not an Error is wrapped into one.
OnError(error) ==
  [name |-> "error",
   payload |-> IF error.t # "error" THEN Error(Interpolate(error)) ELSE error]

\* The driver opens handle h: every 'open' listener attached to it runs.
DriverOpen(h) ==
  /\ conns[h].readyState = CONNECTING
  /\ conns' = [conns EXCEPT ![h].readyState = CONNECTED]
  /\ emitted' = [i \in 1..conns[h].onOpen |-> OnConnect]
  /\ lastOp' = [op |-> "driverOpen"]
  /\ UNCHANGED <<given, credentials, options, db, Expense, Income, dataVars>>

\* The errors the driver reports: an Error, or a bare string.
DriverErrors == {Error("refused"), Str("refused")}

\* The connection attempt on handle h fails: every 'error' listener runs.
DriverError(h, error) ==
  /\ conns[h].readyState = CONNECTING
  /\ conns' = [conns EXCEPT ![h].readyState = DISCONNECTED, ![h].errored = TRUE]
  /\ emitted' = [i \in 1..conns[h].onError |-> OnError(error)]
  /\ lastOp' = [op |-> "driverError"]
  /\ UNCHANGED <<given, credentials, options, db, Expense, Income, dataVars>>

\* The driver acknowledges the close of handle h; the store listens to nothing
\* here.
DriverClose(h) ==
  /\ conns[h].readyState = DISCONNECTING
  /\ conns' = [conns EXCEPT ![h].readyState = DISCONNECTED]
  /\ emitted' = <<>>
  /\ lastOp' = [op |-> "driverClose"]
  /\ UNCHANGED <<given, credentials, options, db, Expense, Income, dataVars>>

(* ------------------------------------------------------------------ *)
(* Records and the two collections.                                    *)
(* ------------------------------------------------------------------ *)

Kinds == {"expense", "income"}

\* The binding a method of the given kind goes through.
Binding(kind) == IF kind = "expense" THEN Expense ELSE Income

\* The collection behind it.
Collection(kind) == IF kind = "expense" THEN expenses ELSE incomes

Fields ==
  {"_id", "account", "amount", "currency", "timestamp", "description",
   "availableCredit", "category"}

\* new Expense(e) / new Income(i): a document with a fresh identifier and the
\* fields of the record shape; any other key of the input is dropped.
NewDocument(e, id) ==
  [k \in Fields |-> IF k = "_id" THEN Num(id) ELSE Prop(e, k)]

\* An entry following the model interface, as putExpense requires of its
\* argument.
Entry(account, t, category) ==
  [account |-> Str(account), amount |-> Num(10), currency |-> Str("USD"),
   timestamp |-> Num(t), description |-> Str("lunch"),
   availableCredit |-> Num(100), category |-> category]

\* The arguments of putExpense / putIncome: one entry per timestamp, each
\* carrying a key ("note") the record shape does not have.
PutInputs ==
  { [k \in DOMAIN Entry("cash", t, Undefined) \cup {"note"} |->
       IF k = "note" THEN Str("n") ELSE Entry("cash", t, Undefined)[k]]
    : t \in 1..MaxTs }

\* The bounds of a range query.
Bounds == 1..(MaxTs + 1)

\* The bounds the model calls a range query with: every start but the one
\* above all timestamps and every end but the one below them, both of which
\* make the window empty (as start >= end does, which remains).
Starts == Bounds \ {MaxTs + 1}
Ends == Bounds \ {1}

\* The identifiers a caller may name: any the store may hand out, be it
\* unused so far, removed since, or a document's of the other kind.
IdInputs == 1..MaxIds

\* The `changes` objects a caller may hand to editExpense / editIncome: one
\* with the three keys and two keys beyond them, one with a description only.
ChangeInputs ==
  { [description |-> Str("dinner"), timestamp |-> Num(MaxTs), category |-> Str("food"),
     amount |-> Num(99), account |-> Str("other")],
    [description |-> Str("dinner")] }

\* What the driver answers to a query it has executed.
Replies == {"ok", "err"}

DriverFailure == Error("driver")
TypeError == Error("TypeError")

\* The callback of find / remove / update: reject(error) or resolve(value).
Settle(reply, value) ==
  IF reply = "err"
    THEN [outcome |-> "rejected", error |-> DriverFailure]
    ELSE [outcome |-> "resolved", value |-> value]

\* A method called through a binding that is no model. The factory has none
\* of find, remove and update, and a document has no find: the call is a
\* TypeError inside the promise's executor, which rejects the promise. A
\* document has a remove and an update of its own, which act on that document
\* and not on the collection: the promise may as well resolve.
Unbound(B, method) ==
  { [outcome |-> "rejected", error |-> TypeError] }
    \cup IF B.kind = "document" /\ method \in {"remove", "update"}
           THEN { [outcome |-> "resolved", value |-> Undefined] }
           ELSE {}

\* The binding is a model and its handle is open, so the driver executes what
\* the model is asked (on a handle still connecting the driver buffers it).
Ready(kind) ==
  /\ Binding(kind).kind = "model"
  /\ conns[Binding(kind).conn].readyState = CONNECTED

(* ------------------------------------------------------------------ *)
(* putExpense / putIncome and the save they request.                   *)
(* ------------------------------------------------------------------ *)

\* putExpense(e) / putIncome(i)
Put(kind, e) ==
  /\ IF Binding(kind).kind = "model"
       THEN /\ nextId < MaxIds
            /\ nextId' = nextId + 1
            /\ pending' = pending \cup
                 {[kind |-> kind, doc |-> NewDocument(e, nextId + 1),
                   conn |-> Binding(kind).conn]}
            /\ lastOp' = [op |-> "put", kind |-> kind, e |-> e,
                          connected |-> Ready(kind), outcome |-> "returned"]
       ELSE /\ UNCHANGED <<nextId, pending>>
            /\ lastOp' = [op |-> "put", kind |-> kind, e |-> e,
                          connected |-> FALSE, outcome |-> "threw"]
  /\ emitted' = <<>>
  /\ UNCHANGED <<given, credentials, options, lifeVars, expenses, incomes>>

\* The driver persists a requested save.
DriverSave(p) ==
  /\ conns[p.conn].readyState = CONNECTED
  /\ pending' = pending \ {p}
  /\ expenses' = IF p.kind = "expense" THEN expenses \cup {p.doc} ELSE expenses
  /\ incomes' = IF p.kind = "income" THEN incomes \cup {p.doc} ELSE incomes
  /\ emitted' = <<>>
  /\ lastOp' = [op |-> "driverSave"]
  /\ UNCHANGED <<given, credentials, options, lifeVars, nextId>>

\* A requested save fails: save()'s promise is dropped, so nothing is emitted
\* and nothing is rejected.
DriverSaveError(p) ==
  /\ pending' = pending \ {p}
  /\ emitted' = <<>>
  /\ lastOp' = [op |-> "driverSaveError"]
  /\ UNCHANGED <<given, credentials, options, lifeVars, expenses, incomes, nextId>>

(* ------------------------------------------------------------------ *)
(* getExpenses / getIncome.                                            *)
(* ------------------------------------------------------------------ *)

\* A slip the range claim must notice: the upper bound taken inclusive.
MatchesInclusive(r, s, e) ==
  IsNumber(r.timestamp) /\ r.timestamp.v >= s /\ r.timestamp.v <= e

\* The filter {timestamp: {$gte: s, $lt: e}}.
Matches(r, s, e) ==
  IsNumber(r.timestamp) /\ r.timestamp.v >= s /\ r.timestamp.v < e

\* The projection: the eight listed fields of a document.
Project(r) ==
  [k \in {"_id", "account", "amount", "currency", "timestamp", "description",
          "availableCredit", "category"} |-> r[k]]

\* The orders {sort: {timestamp: -1}} may return the documents S in.
SortedDesc(S) ==
  { q \in [1..Cardinality(S) -> S] :
      /\ \A i, j \in DOMAIN q : i # j => q[i] # q[j]
      /\ \A i, j \in DOMAIN q : i < j => q[i].timestamp.v >= q[j].timestamp.v }

\* What find answers for the collection coll.
Find(coll, s, e) ==
  SortedDesc({ Project(r) : r \in { x \in coll : Matches(x, s, e) } })

\* getExpenses(s, e) / getIncome(s, e)
Get(kind, s, e) ==
  /\ \/ /\ Ready(kind)
        /\ \E docs \in Find(Collection(kind), s, e), reply \in Replies :
             lastOp' = [op |-> "get", kind |-> kind, reply |-> reply]
                         @@ Settle(reply, docs)
     \/ /\ Binding(kind).kind # "model"
        /\ \E r \in Unbound(Binding(kind), "find") :
             lastOp' = [op |-> "get", kind |-> kind, reply |-> "none"] @@ r
  /\ emitted' = <<>>
  /\ UNCHANGED <<given, credentials, options, lifeVars, dataVars>>

(* ------------------------------------------------------------------ *)
(* removeExpense / removeIncome.                                       *)
(* ------------------------------------------------------------------ *)

\* A slip the frame claims must notice: the whole collection is swept.
AfterRemoveAll(coll, id) == {}

\* The collection after remove({_id: id}).
AfterRemove(coll, id) == { r \in coll : r._id # Num(id) }

\* removeExpense(id) / removeIncome(id)
Remove(kind, id) ==
  /\ \/ /\ Ready(kind)
        /\ \E reply \in Replies :
             /\ lastOp' = [op |-> "remove", kind |-> kind, id |-> id,
                           reply |-> reply] @@ Settle(reply, Undefined)
             /\ expenses' = IF kind = "expense" /\ reply = "ok"
                              THEN AfterRemove(expenses, id) ELSE expenses
             /\ incomes' = IF kind = "income" /\ reply = "ok"
                             THEN AfterRemove(incomes, id) ELSE incomes
     \/ /\ Binding(kind).kind # "model"
        /\ \E r \in Unbound(Binding(kind), "remove") :
             lastOp' = [op |-> "remove", kind |-> kind, id |-> id, reply |-> "none"] @@ r
        /\ UNCHANGED <<expenses, incomes>>
  /\ emitted' = <<>>
  /\ UNCHANGED <<given, credentials, options, lifeVars, pending, nextId>>

(* ------------------------------------------------------------------ *)
(* editExpense / editIncome.                                           *)
(* ------------------------------------------------------------------ *)

\* A slip the frame claim must notice: the caller's object is passed whole.
UpdateDocWhole(changes) == changes

\* The update document editExpense / editIncome passes to update(): always
\* the three keys, undefined where `changes` has none.
UpdateDoc(changes) ==
  [description |-> Prop(changes, "description"),
   timestamp |-> Prop(changes, "timestamp"),
   category |-> Prop(changes, "category")]

\* The driver writes undefined as null.
Stored(x) == IF x = Undefined THEN Null ELSE x

\* The document r after the update document's keys are set on it.
SetFields(r, doc) ==
  [k \in DOMAIN r |-> IF k \in DOMAIN doc THEN Stored(doc[k]) ELSE r[k]]

\* The collection after update({_id: id}, doc).
AfterUpdate(coll, id, doc) ==
  { IF r._id = Num(id) THEN SetFields(r, doc) ELSE r : r \in coll }

\* editExpense(id, changes) / editIncome(id, changes)
Edit(kind, id, changes) ==
  /\ \/ /\ Ready(kind)
        /\ \E reply \in Replies :
             /\ lastOp' = [op |-> "edit", kind |-> kind, id |-> id,
                           reply |-> reply] @@ Settle(reply, Undefined)
             /\ expenses' = IF kind = "expense" /\ reply = "ok"
                              THEN AfterUpdate(expenses, id, UpdateDoc(changes))
                              ELSE expenses
             /\ incomes' = IF kind = "income" /\ reply = "ok"
                             THEN AfterUpdate(incomes, id, UpdateDoc(changes))
                             ELSE incomes
     \/ /\ Binding(kind).kind # "model"
        /\ \E r \in Unbound(Binding(kind), "update") :
             lastOp' = [op |-> "edit", kind |-> kind, id |-> id, reply |-> "none"] @@ r
        /\ UNCHANGED <<expenses, incomes>>
  /\ emitted' = <<>>
  /\ UNCHANGED <<given, credentials, options, lifeVars, pending, nextId>>

(* ------------------------------------------------------------------ *)
(* Specifications.                                                     *)
(* ------------------------------------------------------------------ *)

Handles == 1..Len(conns)

\* Credentials with everything given but the port.
FullCredentials ==
  [k \in DOMAIN AllCredentials \ {"port"} |-> AllCredentials[k]]

\* The calls and driver events of the connection lifecycle.
ConnNext ==
  \/ Connect
  \/ Disconnect
  \/ \E h \in Handles : DriverOpen(h)
  \/ \E h \in Handles, e \in DriverErrors : DriverError(h, e)
  \/ \E h \in Handles : DriverClose(h)

\* Every credentials and options object; the connection lifecycle.
UriInit == \E c \in CredentialInputs, o \in OptionInputs : Constructed(c, o)

SpecUri == UriInit /\ [][ConnNext]_vars

\* One set of credentials, every options object; the lifecycle, and the
\* operations on the records as far as they leave the collections empty (an
\* insert only where it ends in a TypeError).
LifeInit == \E o \in OptionInputs : Constructed(FullCredentials, o)

LifeNext ==
  \/ ConnNext
  \/ \E k \in Kinds, e \in PutInputs : Binding(k).kind # "model" /\ Put(k, e)
  \/ \E k \in Kinds, s \in Starts, e \in Ends : Get(k, s, e)
  \/ \E k \in Kinds, id \in IdInputs : Remove(k, id)
  \/ \E k \in Kinds, id \in IdInputs, c \in ChangeInputs : Edit(k, id, c)

SpecLife == LifeInit /\ [][LifeNext]_vars

\* One store built with the default options; the operations on the records,
\* with the driver opening the handle and settling the saves.
DataInit == Constructed(FullCredentials, <<>>)

DataNext ==
  \/ \E h \in Handles : DriverOpen(h)
  \/ \E k \in Kinds, e \in PutInputs : Put(k, e)
  \/ \E p \in pending : DriverSave(p)
  \/ \E p \in pending : DriverSaveError(p)
  \/ \E k \in Kinds, s \in Starts, e \in Ends : Get(k, s, e)
  \/ \E k \in Kinds, id \in IdInputs : Remove(k, id)
  \/ \E k \in Kinds, id \in IdInputs, c \in ChangeInputs : Edit(k, id, c)

SpecData == DataInit /\ [][DataNext]_vars

(* ------------------------------------------------------------------ *)
(* Properties.                                                         *)
(* ------------------------------------------------------------------ *)

\* The current handle exists and the driver reports it open.
HandleOpen == db # 0 /\ conns[db].readyState = 1

DisconnectEvent == [name |-> "disconnect", payload |-> Undefined]

\* C1: a connect() called right after a connect() (the constructor's, with
\* connectOnInit, or a call), the driver's 'open' not yet delivered, sets
\* nothing up again: it creates no handle, rebinds no model, attaches no
\* listener and emits nothing.
C1_ConnectTwiceOneSetup ==
  [][(/\ lastOp'.op = "connect"
      /\ \/ lastOp.op = "connect"
         \/ lastOp.op = "new" /\ lastOp.connectOnInit)
       => /\ conns' = conns
          /\ db' = db
          /\ Expense' = Expense
          /\ Income' = Income
          /\ emitted' = <<>>]_vars

\* C5: disconnect() emits 'disconnect' exactly when the current handle is open
\* at the call: then it closes that handle (and no other) and emits one
\* 'disconnect' in the same step, before the driver acknowledges the close;
\* otherwise it touches no handle and emits nothing. A disconnect() right after
\* a disconnect() emits nothing.
C5_DisconnectEmitsIffConnected ==
  [][lastOp'.op = "disconnect"
       => /\ IF HandleOpen
               THEN /\ emitted' = <<DisconnectEvent>>
                    /\ conns'[db].readyState = 3
                    /\ \A h \in Handles \ {db} : conns'[h] = conns[h]
               ELSE /\ emitted' = <<>>
                    /\ conns' = conns
          /\ db' = db
          /\ (lastOp.op = "disconnect" => emitted' = <<>>)]_vars

\* C5's case: a disconnect() on an open handle has just emitted its event, and
\* the driver has not acknowledged the close yet.
C5_Witness ==
  /\ lastOp.op = "disconnect"
  /\ lastOp.wasConnected
  /\ emitted = <<DisconnectEvent>>
  /\ conns[db].readyState = 3

\* A credential key is present in the caller's object.
Present(k) == k \in DOMAIN given /\ given[k].t \notin {"undefined", "null"}

AuthKeys == {"username", "password", "authSource"}

PortText == IF Present("port") THEN ToString(given.port.v) ELSE "27017"

\* C7: the URI of every handle is the authenticated form, with the caller's
\* fields in place, if and only if username, password and authSource are all
\* present; otherwise it is the unauthenticated form and holds none of the
\* supplied username, password or authSource; the port is 27017 when none is
\* given.
C7_UriForm ==
  \A h \in Handles :
    LET u == conns[h].uri
    IN IF \A k \in AuthKeys : Present(k)
         THEN u = <<"mongodb://", given.username.v, ":", given.password.v, "@",
                    given.host.v, ":", PortText, "/", given.database.v,
                    "?authSource=", given.authSource.v>>
         ELSE /\ u = <<"mongodb://", given.host.v, ":", PortText, "/",
                       given.database.v>>
              /\ \A k \in AuthKeys : \A i \in DOMAIN u :
                   Present(k) => u[i] # given[k].v

\* C7's case: connect() has created a handle from credentials that lack one of
\* the three keys while supplying the others, with no port given.
C7_Witness ==
  /\ lastOp.op = "connect"
  /\ lastOp.setup
  /\ Present("username")
  /\ Present("authSource")
  /\ ~Present("password")
  /\ ~Present("port")

\* C8: a connect() made after a failed connection attempt (the driver reported
\* an error on the current handle) sets up a fresh connection without failing:
\* a new handle, both models bound to it, one 'open' and one 'error' listener
\* attached to it.
C8_ReconnectAfterError ==
  (lastOp.op = "connect" /\ lastOp.retry)
    => /\ ~lastOp.threw
       /\ ~conns[db].errored
       /\ Expense = [kind |-> "model", conn |-> db]
       /\ Income = [kind |-> "model", conn |-> db]
       /\ conns[db].onOpen = 1
       /\ conns[db].onError = 1

\* C10: each driver 'open' makes the store emit exactly one 'connect', without
\* payload; whenever 'connect' is emitted the store's current handle is open;
\* a driver 'error' emits 'error' and never 'connect'.
C10_ConnectEventMeansConnected ==
  /\ lastOp.op = "driverOpen" => emitted = <<[name |-> "connect", payload |-> Undefined]>>
  /\ \A i \in DOMAIN emitted : emitted[i].name = "connect" => HandleOpen
  /\ lastOp.op = "driverError" => \A i \in DOMAIN emitted : emitted[i].name = "error"

\* The documents of a kind after the step.
CollectionNext(kind) == IF kind = "expense" THEN expenses' ELSE incomes'

\* The documents of collection coll whose timestamp t is a number with
\* s <= t < e.
InWindow(coll, s, e) ==
  { r \in coll : r.timestamp.t = "number" /\ s <= r.timestamp.v /\ r.timestamp.v < e }

\* The sequence out lists exactly the documents of want, each once, in
\* descending order of timestamp.
ListsDescending(out, want) ==
  /\ { out[i] : i \in DOMAIN out } = want
  /\ Len(out) = Cardinality(want)
  /\ \A i \in DOMAIN out : i > 1 => out[i - 1].timestamp.v >= out[i].timestamp.v

\* C2: for every content of the collections and all bounds s and e, whatever
\* find answers for (s, e) lists exactly the documents of that collection with
\* s <= timestamp < e, in descending order of timestamp; a range query the
\* driver answered without error has resolved with such a list of its own
\* collection, and one the driver answered with an error is rejected with
\* that error.
C2_RangeQuery ==
  /\ \A k \in Kinds, s \in Bounds, e \in Bounds :
       \A out \in Find(Collection(k), s, e) :
         ListsDescending(out, InWindow(Collection(k), s, e))
  /\ (lastOp.op = "get" /\ lastOp.reply = "ok") =>
       /\ lastOp.outcome = "resolved"
       /\ \E s \in Bounds, e \in Bounds :
            ListsDescending(lastOp.value, InWindow(Collection(lastOp.kind), s, e))
  /\ (lastOp.op = "get" /\ lastOp.reply = "err") =>
       /\ lastOp.outcome = "rejected"
       /\ lastOp.error = [t |-> "error", v |-> "driver"]

\* C2's case: a query resolved with the one document whose timestamp is 1
\* while its collection holds a document with timestamp 2 as well: the window
\* was [1, 2), which takes t = s in and leaves t = e out.
C2_Witness ==
  /\ lastOp.op = "get"
  /\ lastOp.outcome = "resolved"
  /\ Len(lastOp.value) = 1
  /\ lastOp.value[1].timestamp = Num(1)
  /\ \E r \in Collection(lastOp.kind) : r.timestamp = Num(2)

Immutable == {"_id", "account", "amount", "currency", "availableCredit"}

\* C3: in every step a document that stays in its collection keeps its
\* identifier, account, amount, currency and availableCredit; it changes at
\* all only in an edit of its own kind and identifier, which changes no other
\* document of either kind and adds and removes none.
C3_EditFrame ==
  [][(expenses' # expenses \/ incomes' # incomes) => \A k \in Kinds :
       LET changed == { r \in Collection(k) :
                          /\ r \notin CollectionNext(k)
                          /\ \E x \in CollectionNext(k) : x._id = r._id }
           others == CHOOSE o \in Kinds : o # k
       IN /\ \A r \in Collection(k), x \in CollectionNext(k) :
               x._id = r._id => \A f \in Immutable : x[f] = r[f]
          /\ \A r \in changed :
               /\ lastOp'.op = "edit"
               /\ lastOp'.kind = k
               /\ r._id = Num(lastOp'.id)
               /\ Cardinality(changed) = 1
               /\ CollectionNext(others) = Collection(others)
               /\ Cardinality(CollectionNext(k)) = Cardinality(Collection(k))]_vars

\* C3's case: an edit whose changes carried amount and account besides the
\* three keys has rewritten the document it named, which kept its amount and
\* account.
C3_Witness ==
  /\ lastOp.op = "edit"
  /\ lastOp.outcome = "resolved"
  /\ \E r \in Collection(lastOp.kind) :
       /\ r._id = Num(lastOp.id)
       /\ r.description = Str("dinner")
       /\ r.category = Str("food")
       /\ r.amount = Num(10)
       /\ r.account = Str("cash")

\* C4: a putExpense(r) / putIncome(r) on a connected store followed by a range
\* query of the same kind whose window holds r's timestamp, answered by the
\* driver without error, resolves with a sequence that holds a document with
\* r's account, currency, timestamp, description and availableCredit.
C4_RoundTrip ==
  [][\A s \in Bounds, e \in Bounds :
       (/\ lastOp.op = "put"
        /\ lastOp.outcome = "returned"
        /\ lastOp.connected
        /\ lastOp'.op = "get"
        /\ Get(lastOp.kind, s, e)
        /\ lastOp'.reply = "ok"
        /\ s <= lastOp.e.timestamp.v
        /\ lastOp.e.timestamp.v < e)
         => /\ lastOp'.outcome = "resolved"
            /\ \E i \in DOMAIN lastOp'.value :
                 \A f \in {"account", "currency", "timestamp", "description",
                           "availableCredit"} :
                   lastOp'.value[i][f] = lastOp.e[f]]_vars

C9_TimestampNumeric ==
  \A r \in expenses \cup incomes : r.timestamp.t = "number"

====
